---- MODULE Spec2Model ----
(***************************************************************************)
(* Model of the normalization and recommendation layer of the Riverr       *)
(* backend (src/main.py): the field extractors, the genre aggregator and   *)
(* the two composed recommendation handlers /recomovies and /recotv.       *)
(*                                                                         *)
(* Conventions                                                             *)
(*  - a Python str is a sequence of chunks: one-character strings where    *)
(*    the characters matter (genre names, dates, titles) and whole         *)
(*    literals for the constant texts of the program, so that +, lower()   *)
(*    and [:4] are computed on sequences;                                  *)
(*  - a JSON scalar is a record [t, s, n] (type tag, str value, number);   *)
(*  - a JSON object is a function from its present keys to its values;     *)
(*  - the outcome of a Python call is a record [exc, text, val]:           *)
(*    exc = "none" and the returned val, or the exception type and its     *)
(*    str() text.                                                          *)
(***************************************************************************)
EXTENDS Integers, Sequences, FiniteSets, TLC

VARIABLES
    pc,         \* position of the handler: idle, await_library, await_taxonomy, await_discover, done
    kind,       \* "movie" for /recomovies, "tv" for /recotv
    lib_resp,   \* reply of the collection manager to GET /movie or /series
    tax_resp,   \* reply of the metadata service to GET /genre/movie/list
    disc_resp,  \* reply of the metadata service to GET /discover/{type}
    m_data,     \* local m_data / s_data of the handler
    genre,      \* local genre of the handler (outcome of get_genre)
    id,         \* local id of the handler
    result,     \* what the handler returned (or the exception that escaped it)
    calls,      \* upstream calls issued so far by this request, in order
    prev,       \* observation of the previous request: [cause, kind, result]
    fn,         \* utility function under test
    arg,        \* its argument
    ret         \* its outcome

vars == <<pc, kind, lib_resp, tax_resp, disc_resp, m_data, genre, id, result,
          calls, prev, fn, arg, ret>>

reqvars == <<pc, kind, lib_resp, tax_resp, disc_resp, m_data, genre, id,
             result, calls>>

-----------------------------------------------------------------------------
(* Bounds of the input domains *)

MaxLib == 2        \* records in a library reply
MaxGenres == 1     \* genres per library record in a handler run
MaxTax == 2        \* entries of a taxonomy reply
MaxResults == 2    \* results of a discover reply
MaxScan == 2       \* records and genres per record for get_genre alone
MaxItems == 2      \* elements of a list inside a ratings payload
MaxImages == 2     \* image descriptors given to get_poster_url
MaxMinutes == 125  \* largest magnitude of an int given to get_runtime

-----------------------------------------------------------------------------
(* Python values *)

JStr(s) == [t |-> "str", s |-> s, n |-> 0]
JInt(n) == [t |-> "int", s |-> <<>>, n |-> n]
JFloat(n) == [t |-> "float", s |-> <<>>, n |-> n]    \* n is the value in tenths
JNull == [t |-> "null", s |-> <<>>, n |-> 0]

Lit(text) == <<text>>

Returned(v) == [exc |-> "none", text |-> <<>>, val |-> v]
Raised(e, msg) == [exc |-> e, text |-> Lit(msg), val |-> <<>>]

SeqsUpTo(S, n) == UNION {[1..k -> S] : k \in 0..n}

\* str.lower() on the letters the model uses
LowerChar(c) ==
    CASE c = "W" -> "w"
      [] c = "A" -> "a"
      [] c = "R" -> "r"
      [] c = "D" -> "d"
      [] OTHER -> c

lower(s) == [i \in 1..Len(s) |-> LowerChar(s[i])]

War == <<"W", "a", "r">>
war == <<"w", "a", "r">>
WAR == <<"W", "A", "R">>
Doc == <<"D", "o", "c">>

GenreNames == {War, WAR, Doc}      \* genre names given to get_genre alone
LibraryGenres == {WAR, Doc}        \* genre names of a library reply

-----------------------------------------------------------------------------
(* get_genre, src/main.py:522-530 *)

\* genres[genre] += 1, or genres[genre] = 1 appended in insertion order.
\* The dict is the sequence of its <<key, count>> items in insertion order.
DictIncr(genres, g) ==
    IF \E i \in 1..Len(genres) : genres[i][1] = g
    THEN [i \in 1..Len(genres) |->
            IF genres[i][1] = g THEN <<g, genres[i][2] + 1>> ELSE genres[i]]
    ELSE Append(genres, <<g, 1>>)

RECURSIVE CountInto(_, _)
CountInto(genres, occ) ==
    IF occ = <<>> THEN genres
    ELSE CountInto(DictIncr(genres, Head(occ)), Tail(occ))

\* the genre occurrences in scan order: records left to right, each
\* record's list left to right
RECURSIVE Occurrences(_)
Occurrences(medias) ==
    IF medias = <<>> THEN <<>>
    ELSE Head(medias)["genres"] \o Occurrences(Tail(medias))

\* max(iterable, key=...): the first item, in iteration order, whose key is
\* not exceeded by any other
PyMaxLast(items) ==
    LET best == CHOOSE i \in 1..Len(items) :
                    /\ \A j \in 1..Len(items) : items[j][2] <= items[i][2]
                    /\ \A j \in (i+1)..Len(items) : items[j][2] < items[i][2]
    IN items[best][1]

PyMinFirst(items) ==
    LET best == CHOOSE i \in 1..Len(items) :
                    /\ \A j \in 1..Len(items) : items[j][2] >= items[i][2]
                    /\ \A j \in 1..(i-1) : items[j][2] > items[i][2]
    IN items[best][1]

RECURSIVE max_scan(_, _, _)
max_scan(items, i, best) ==
    IF i > Len(items) THEN items[best][1]
    ELSE max_scan(items, i + 1, IF items[i][2] > items[best][2] THEN i ELSE best)

PyMax(items) == max_scan(items, 2, 1)

get_genre_default(medias) ==
    IF \E i \in 1..Len(medias) : "genres" \notin DOMAIN medias[i]
    THEN Returned(<<>>)
    ELSE LET genres == CountInto(<<>>, Occurrences(medias))
         IN IF genres = <<>> THEN Returned(<<>>) ELSE Returned(PyMax(genres))

get_genre(medias) ==
    IF \E i \in 1..Len(medias) : "genres" \notin DOMAIN medias[i]
    THEN Raised("KeyError", "'genres'")
    ELSE LET genres == CountInto(<<>>, Occurrences(medias))
         IN IF genres = <<>>
            THEN Raised("ValueError", "max() arg is an empty sequence")
            ELSE Returned(PyMax(genres))

-----------------------------------------------------------------------------
(* Text conversions *)

Digit(d) ==
    CASE d = 0 -> "0" [] d = 1 -> "1" [] d = 2 -> "2" [] d = 3 -> "3"
      [] d = 4 -> "4" [] d = 5 -> "5" [] d = 6 -> "6" [] d = 7 -> "7"
      [] d = 8 -> "8" [] d = 9 -> "9"

\* str() of a non-negative int below 100
IntRepr(n) == IF n < 10 THEN <<Digit(n)>> ELSE <<Digit(n \div 10), Digit(n % 10)>>

\* str() of a JSON value; a float is held in tenths
PyStr(v) ==
    CASE v.t = "str" -> v.s
      [] v.t = "null" -> Lit("None")
      [] v.t = "int" -> IntRepr(v.n)
      [] v.t = "float" -> IntRepr(v.n \div 10) \o <<".", Digit(v.n % 10)>>

\* s[:4]
Slice4(s) == SubSeq(s, 1, IF Len(s) < 4 THEN Len(s) ELSE 4)

TMDB_POSTER_URL == Lit("https://image.tmdb.org/t/p/original")

-----------------------------------------------------------------------------
(* get_runtime, src/main.py:507-514 *)

IsDigit(c) == \E d \in 0..9 : Digit(d) = c
DigitVal(c) == CHOOSE d \in 0..9 : Digit(d) = c

\* str() of an int
RECURSIVE nat_str(_)
nat_str(n) == IF n < 10 THEN <<Digit(n)>> ELSE nat_str(n \div 10) \o <<Digit(n % 10)>>

int_str(n) == IF n < 0 THEN <<"-">> \o nat_str(-n) ELSE nat_str(n)

\* str.strip() of blanks, as int() does before it reads a literal
RECURSIVE strip(_)
strip(s) ==
    IF s = <<>> THEN s
    ELSE IF Head(s) = " " THEN strip(Tail(s))
    ELSE IF s[Len(s)] = " " THEN strip(SubSeq(s, 1, Len(s) - 1))
    ELSE s

RECURSIVE digits_value(_, _)
digits_value(ds, acc) ==
    IF ds = <<>> THEN acc ELSE digits_value(Tail(ds), 10 * acc + DigitVal(Head(ds)))

\* int(x): an int is itself, a float is truncated toward zero, a str is an
\* optionally signed decimal literal, anything else raises
py_int(v) ==
    CASE v.t = "int" -> Returned(v.n)
      [] v.t = "float" -> Returned(IF v.n >= 0 THEN v.n \div 10 ELSE -((-v.n) \div 10))
      [] v.t = "null" -> Raised("TypeError", "int() argument must be a string or a real number")
      [] v.t = "str" ->
            LET body == strip(v.s)
                signed == body # <<>> /\ Head(body) \in {"+", "-"}
                ds == IF signed THEN Tail(body) ELSE body
            IN IF ds # <<>> /\ \A i \in 1..Len(ds) : IsDigit(ds[i])
               THEN Returned(IF signed /\ Head(body) = "-"
                             THEN -digits_value(ds, 0) ELSE digits_value(ds, 0))
               ELSE Raised("ValueError", "invalid literal for int() with base 10")

get_runtime_swapped(min) ==
    LET n == py_int(min)
    IN IF n.exc # "none" THEN Returned(min)
       ELSE LET hours == n.val % 60
                minutes == n.val \div 60
            IN Returned(JStr(int_str(hours) \o <<"h", " ">> \o int_str(minutes) \o <<"m">>))

\* the bare except returns the argument as it was given
get_runtime(min) ==
    LET n == py_int(min)
    IN IF n.exc # "none" THEN Returned(min)
       ELSE LET hours == n.val \div 60
                minutes == n.val % 60
            IN Returned(JStr(int_str(hours) \o <<"h", " ">> \o int_str(minutes) \o <<"m">>))

-----------------------------------------------------------------------------
(* Field extractors, src/main.py:516-520 and 548-564 *)

get_title(media) ==
    IF "title" \in DOMAIN media /\ media["title"].t = "str"
    THEN Returned(media["title"])
    ELSE Returned(JStr(Lit("No title found")))

get_year_fixed(media) ==
    IF "year" \in DOMAIN media /\ media["year"].t = "str"
    THEN Returned(media["year"])
    ELSE Returned(JStr(Lit("No year found")))

get_year(media) ==
    IF "year" \in DOMAIN media /\ media["year"].t = "str"
    THEN IF "yeat" \in DOMAIN media
         THEN Returned(media["yeat"])
         ELSE Raised("KeyError", "'yeat'")
    ELSE Returned(JStr(Lit("No year found")))

get_overview(media) ==
    IF "overview" \in DOMAIN media /\ media["overview"].t = "str"
    THEN Returned(media["overview"])
    ELSE Returned(JStr(Lit("No overview found")))

RECURSIVE get_poster_url(_)
get_poster_url(images) ==
    IF images = <<>> THEN Returned(JNull)
    ELSE LET image == Head(images)
         IN IF "coverType" \notin DOMAIN image
            THEN Raised("KeyError", "'coverType'")
            ELSE IF image["coverType"] = JStr(Lit("poster"))
                 THEN IF "remoteUrl" \notin DOMAIN image
                      THEN Raised("KeyError", "'remoteUrl'")
                      ELSE Returned(image["remoteUrl"])
                 ELSE get_poster_url(Tail(images))

-----------------------------------------------------------------------------
(* get_rating, src/main.py:532-546 *)

\* a dict is the sequence of its <<key, value>> items in insertion order
PyDict(kv) == [t |-> "dict", kv |-> kv]

HasKey(d, k) == \E i \in 1..Len(d.kv) : d.kv[i][1] = k
Lookup(d, k) == d.kv[CHOOSE i \in 1..Len(d.kv) : d.kv[i][1] = k][2]
Values(d) == [i \in 1..Len(d.kv) |-> d.kv[i][2]]

RECURSIVE get_rating_any(_), first_rating_any(_)
get_rating_any(ratings) ==
    IF ratings.t = "dict"
    THEN IF HasKey(ratings, "value") /\ Lookup(ratings, "value").t \in {"float", "int"}
         THEN Lookup(ratings, "value")
         ELSE first_rating_any(Values(ratings))
    ELSE IF ratings.t = "list" THEN first_rating_any(ratings.items)
    ELSE JNull

first_rating_any(xs) ==
    IF xs = <<>> THEN JNull
    ELSE LET r == get_rating_any(Head(xs))
         IN IF r # JNull THEN r ELSE first_rating_any(Tail(xs))

\* the for loops: the first element whose search does not give None
RECURSIVE get_rating(_), first_rating(_)
get_rating(ratings) ==
    IF ratings.t = "dict"
    THEN IF HasKey(ratings, "value") /\ Lookup(ratings, "value").t = "float"
         THEN Lookup(ratings, "value")
         ELSE first_rating(Values(ratings))
    ELSE IF ratings.t = "list" THEN first_rating(ratings.items)
    ELSE JNull

first_rating(xs) ==
    IF xs = <<>> THEN JNull
    ELSE LET r == get_rating(Head(xs))
         IN IF r # JNull THEN r ELSE first_rating(Tail(xs))

-----------------------------------------------------------------------------
(* Replies of the upstream services *)

TransportFailure == [kind |-> "transport", status |-> 0, body |-> <<>>]
StatusReply(code) == [kind |-> "status", status |-> code, body |-> <<>>]
BadJsonReply == [kind |-> "badjson", status |-> 200, body |-> <<>>]
JsonReply(b) == [kind |-> "json", status |-> 200, body |-> b]

FailureReplies == {TransportFailure, StatusReply(404), StatusReply(500), BadJsonReply}

NoReply == [kind |-> "none", status |-> 0, body |-> <<>>]

\* what client.get + raise_for_status + json() give: the decoded body, or
\* the exception raised ([exc, text, val] with val the HTTP status)
Received(resp) ==
    CASE resp.kind = "transport" ->
            [exc |-> "ConnectError", text |-> Lit("All connection attempts failed"), val |-> 0]
      [] resp.kind = "status" ->
            [exc |-> "HTTPStatusError",
             text |-> IF resp.status < 500 THEN Lit("Client error") ELSE Lit("Server error"),
             val |-> resp.status]
      [] resp.kind = "badjson" ->
            [exc |-> "JSONDecodeError", text |-> Lit("Expecting value"), val |-> 0]
      [] resp.kind = "json" -> Returned(resp.body)

\* library records: the genres list, when the record carries one
LibRecords(names, maxGenres) ==
    {[title |-> JStr(<<"T">>)]}
        \cup {[title |-> JStr(<<"T">>), genres |-> gs] : gs \in SeqsUpTo(names, maxGenres)}

Libraries(names, maxLib, maxGenres) == SeqsUpTo(LibRecords(names, maxGenres), maxLib)

LibraryReplies ==
    FailureReplies \cup {JsonReply(b) : b \in Libraries(LibraryGenres, MaxLib, MaxGenres)}

TaxonomyEntries == {[name |-> War, id |-> 27], [name |-> war, id |-> 18], [name |-> Doc, id |-> 99]}

TaxonomyReplies ==
    FailureReplies
        \cup {JsonReply([status_message |-> JStr(Lit("Invalid API key"))])}
        \cup {JsonReply([genres |-> gs]) : gs \in SeqsUpTo(TaxonomyEntries, MaxTax)}

Date1 == <<"2", "0", "2", "3", "-", "0", "5">>
Date2 == <<"1", "9", "9">>

\* discover results in the movie layout of the metadata service
MovieResults ==
    {[original_title |-> JStr(<<"M", "1">>), overview |-> JStr(<<"o">>), vote_average |-> JFloat(75),
      poster_path |-> JStr(<<"/", "a">>), release_date |-> JStr(Date1)],
     [original_title |-> JStr(<<"M", "2">>), vote_average |-> JInt(6),
      poster_path |-> JStr(<<"/", "b">>), release_date |-> JStr(Date2)],
     [original_title |-> JStr(<<"M", "3">>), overview |-> JNull, vote_average |-> JFloat(81),
      poster_path |-> JNull, release_date |-> JStr(Date1)]}

\* discover results in the series layout of the metadata service
SeriesResults ==
    {[original_name |-> JStr(<<"S", "1">>), overview |-> JStr(<<"o">>), vote_average |-> JFloat(75),
      poster_path |-> JStr(<<"/", "a">>), first_air_date |-> JStr(Date1)],
     [original_name |-> JStr(<<"S", "2">>), overview |-> JStr(<<"o">>), vote_average |-> JInt(6),
      poster_path |-> JStr(<<"/", "b">>), first_air_date |-> JStr(Date2)]}

DiscoverReplies(type) ==
    FailureReplies
        \cup {JsonReply([results |-> rs]) :
                rs \in SeqsUpTo(IF type = "movie" THEN MovieResults ELSE SeriesResults, MaxResults)}

-----------------------------------------------------------------------------
(* Recommendation resolver, src/main.py:566-601 *)

NameMatchesExact(entry_name, genre_name) == entry_name = genre_name

\* genre["name"].lower() == genre_name.lower()
NameMatches(entry_name, genre_name) == lower(entry_name) = lower(genre_name)

RECURSIVE first_match(_, _)
first_match(genres, genre_name) ==
    IF genres = <<>> THEN -1
    ELSE IF NameMatches(Head(genres).name, genre_name)
         THEN Head(genres).id
         ELSE first_match(Tail(genres), genre_name)

\* the value returned once the taxonomy call has been answered by resp;
\* every exception is logged and becomes -1
get_tmdb_genre_from_name(resp, genre_name) ==
    LET r == Received(resp)
    IN IF r.exc # "none" THEN -1
       ELSE IF "genres" \notin DOMAIN r.val THEN -1
       ELSE first_match(r.val["genres"], genre_name)

PyList(items) == [t |-> "list", items |-> items]

\* the value returned once the discover call has been answered by resp:
\* the results list, or the int -1
get_tmdb_recomendations(resp) ==
    LET r == Received(resp)
    IN IF r.exc # "none" THEN JInt(-1)
       ELSE IF "results" \notin DOMAIN r.val THEN JInt(-1)
       ELSE PyList(r.val["results"])

-----------------------------------------------------------------------------
(* Media, src/main.py:72-91, and the comprehension of the handlers *)

Media(name, synopsis, rating, length, thumbnail, year, watched) ==
    [name |-> name, synopsis |-> synopsis, rating |-> rating, length |-> length,
     thumbnail |-> thumbnail, watched |-> watched, year |-> year]

\* Media(str(m["original_title"]), ..., watched=False).to_dict(); the
\* arguments are evaluated left to right
reco_media(m) ==
    IF "original_title" \notin DOMAIN m THEN Raised("KeyError", "'original_title'")
    ELSE IF "vote_average" \notin DOMAIN m THEN Raised("KeyError", "'vote_average'")
    ELSE IF "poster_path" \notin DOMAIN m THEN Raised("KeyError", "'poster_path'")
    ELSE IF m["poster_path"].t # "str"
         THEN Raised("TypeError", "can only concatenate str to str")
    ELSE IF "release_date" \notin DOMAIN m THEN Raised("KeyError", "'release_date'")
    ELSE IF m["release_date"].t # "str"
         THEN Raised("TypeError", "object is not subscriptable")
    ELSE Returned(Media(PyStr(m["original_title"]),
                        PyStr(get_overview(m).val),
                        PyStr(m["vote_average"]),
                        Lit("N/A"),
                        TMDB_POSTER_URL \o m["poster_path"].s,
                        Slice4(m["release_date"].s),
                        FALSE))

RECURSIVE media_list(_)
media_list(ms) ==
    IF ms = <<>> THEN Returned(<<>>)
    ELSE LET first == reco_media(Head(ms))
         IN IF first.exc # "none" THEN first
            ELSE LET rest == media_list(Tail(ms))
                 IN IF rest.exc # "none" THEN rest
                    ELSE Returned(<<first.val>> \o rest.val)

-----------------------------------------------------------------------------
(* The handlers /recomovies and /recotv, src/main.py:145-177 and 310-342 *)

NoResult == [shape |-> "none", text |-> <<>>, items |-> <<>>]
Warning(text) == [shape |-> "warning", text |-> text, items |-> <<>>]
Error(text) == [shape |-> "error", text |-> text, items |-> <<>>]
MediaList(items) == [shape |-> "list", text |-> <<>>, items |-> items]
Escaped(exc) == [shape |-> "raised", text |-> Lit(exc), items |-> <<>>]

NoRecoText(k) ==
    IF k = "movie" THEN Lit("No movies to recommend for: ")
    ELSE Lit("No series to recommend for: ")

\* the except clauses; e.response exists on HTTPStatusError only, so the
\* first clause itself raises AttributeError on a transport failure
handler_except(e) ==
    CASE e.exc = "HTTPStatusError" ->
            IF e.val = 404 THEN Warning(Lit("Route not found")) ELSE Error(e.text)
      [] e.exc = "ConnectError" -> Escaped("AttributeError")
      [] e.exc = "JSONDecodeError" -> Error(Lit("Failed to decode JSON: ") \o e.text)
      [] OTHER -> Error(e.text)

\* lines 155-168 once the discover call has returned data
reco_result(k, genre_name, data) ==
    IF data.t # "list"
    THEN handler_except(Raised("TypeError", "'int' object is not iterable"))
    ELSE LET ms == media_list(data.items)
         IN IF ms.exc # "none" THEN handler_except(ms)
            ELSE IF ms.val = <<>> THEN Warning(NoRecoText(k) \o genre_name)
            ELSE MediaList(ms.val)

NoPrev == [cause |-> "none", kind |-> "none", genre |-> <<>>, result |-> NoResult]

ReqInit ==
    /\ pc = "idle"
    /\ kind = "none"
    /\ lib_resp = NoReply
    /\ tax_resp = NoReply
    /\ disc_resp = NoReply
    /\ m_data = PyList(<<>>)
    /\ genre = <<>>
    /\ id = 0
    /\ result = NoResult
    /\ calls = <<>>

PureIdle ==
    /\ fn = "none"
    /\ arg = <<>>
    /\ ret = Returned(<<>>)

Init == ReqInit /\ prev = NoPrev /\ PureIdle

\* the route is hit: client.get on the collection manager
RecoRequest(k) ==
    /\ pc = "idle"
    /\ kind' = k
    /\ calls' = Append(calls, "library")
    /\ pc' = "await_library"
    /\ UNCHANGED <<lib_resp, tax_resp, disc_resp, m_data, genre, id, result, prev, fn, arg, ret>>

\* the library call is answered: raise_for_status, json, get_genre, and the
\* taxonomy call is issued
LibraryReply ==
    /\ pc = "await_library"
    /\ \E resp \in LibraryReplies :
        /\ lib_resp' = resp
        /\ LET r == Received(resp)
           IN IF r.exc # "none"
              THEN /\ result' = handler_except(r)
                   /\ pc' = "done"
                   /\ UNCHANGED <<m_data, genre, calls>>
              ELSE /\ m_data' = PyList(r.val)
                   /\ LET g == get_genre(r.val)
                      IN IF g.exc # "none"
                         THEN /\ result' = handler_except(g)
                              /\ pc' = "done"
                              /\ UNCHANGED <<genre, calls>>
                         ELSE /\ genre' = g.val
                              /\ calls' = Append(calls, "taxonomy")
                              /\ pc' = "await_taxonomy"
                              /\ UNCHANGED result
    /\ UNCHANGED <<kind, tax_resp, disc_resp, id, prev, fn, arg, ret>>

TaxonomyReplyUnchecked ==
    /\ pc = "await_taxonomy"
    /\ \E resp \in TaxonomyReplies :
        /\ tax_resp' = resp
        /\ id' = get_tmdb_genre_from_name(resp, genre)
    /\ calls' = Append(calls, "discover")
    /\ pc' = "await_discover"
    /\ UNCHANGED <<kind, lib_resp, disc_resp, m_data, genre, result, prev, fn, arg, ret>>

\* the taxonomy call is answered: id is set, and either the warning is
\* returned or the discover call is issued
TaxonomyReply ==
    /\ pc = "await_taxonomy"
    /\ \E resp \in TaxonomyReplies :
        /\ tax_resp' = resp
        /\ id' = get_tmdb_genre_from_name(resp, genre)
    /\ IF id' = -1
       THEN /\ result' = Warning(NoRecoText(kind) \o genre)
            /\ pc' = "done"
            /\ UNCHANGED calls
       ELSE /\ calls' = Append(calls, "discover")
            /\ pc' = "await_discover"
            /\ UNCHANGED result
    /\ UNCHANGED <<kind, lib_resp, disc_resp, m_data, genre, prev, fn, arg, ret>>

DiscoverReplyRetry ==
    /\ pc = "await_discover"
    /\ \E resp \in DiscoverReplies(kind) :
        /\ disc_resp' = resp
        /\ m_data' = get_tmdb_recomendations(resp)
    /\ IF m_data'.t # "list" /\ Len(calls) < 4
       THEN /\ calls' = Append(calls, "discover")
            /\ UNCHANGED <<pc, result>>
       ELSE /\ result' = reco_result(kind, genre, m_data')
            /\ pc' = "done"
            /\ UNCHANGED calls
    /\ UNCHANGED <<kind, lib_resp, tax_resp, genre, id, prev, fn, arg, ret>>

\* the discover call is answered: the results are mapped to Media
DiscoverReply ==
    /\ pc = "await_discover"
    /\ \E resp \in DiscoverReplies(kind) :
        /\ disc_resp' = resp
        /\ m_data' = get_tmdb_recomendations(resp)
    /\ result' = reco_result(kind, genre, m_data')
    /\ pc' = "done"
    /\ UNCHANGED <<kind, lib_resp, tax_resp, genre, id, calls, prev, fn, arg, ret>>

\* the caller has its answer and hits the same route again; prev keeps what
\* it saw the first time
Cause ==
    CASE /\ tax_resp.kind = "json"
         /\ "genres" \in DOMAIN tax_resp.body
         /\ \A i \in 1..Len(tax_resp.body["genres"]) :
                lower(tax_resp.body["genres"][i].name) # lower(genre) -> "NotFound"
      [] \/ tax_resp.kind \in {"transport", "status", "badjson"}
         \/ disc_resp.kind \in {"transport", "status", "badjson"} -> "UpstreamUnavailable"
      [] OTHER -> "other"

NextRequest ==
    /\ pc = "done"
    /\ prev = NoPrev
    /\ prev' = [cause |-> Cause, kind |-> kind, genre |-> genre, result |-> result]
    /\ pc' = "idle"
    /\ kind' = "none"
    /\ lib_resp' = NoReply
    /\ tax_resp' = NoReply
    /\ disc_resp' = NoReply
    /\ m_data' = PyList(<<>>)
    /\ genre' = <<>>
    /\ id' = 0
    /\ result' = NoResult
    /\ calls' = <<>>
    /\ UNCHANGED <<fn, arg, ret>>

Next ==
    \/ \E k \in {"movie", "tv"} : RecoRequest(k)
    \/ LibraryReply
    \/ TaxonomyReply
    \/ DiscoverReply

Spec == Init /\ [][Next]_vars

NextPair == Next \/ NextRequest

SpecPair == Init /\ [][NextPair]_vars

-----------------------------------------------------------------------------
(* Properties of the composed recommendation operation *)

IsFailure(resp) == resp.kind \in {"transport", "status", "badjson"}

CasePairs == {{"W", "w"}, {"A", "a"}, {"R", "r"}, {"D", "d"}}

SameIgnoringCase(a, b) ==
    /\ Len(a) = Len(b)
    /\ \A i \in 1..Len(a) : a[i] = b[i] \/ {a[i], b[i]} \in CasePairs

TaxonomyFetched == tax_resp.kind = "json" /\ "genres" \in DOMAIN tax_resp.body

Matching ==
    IF TaxonomyFetched
    THEN {i \in 1..Len(tax_resp.body["genres"]) :
            SameIgnoringCase(tax_resp.body["genres"][i].name, genre)}
    ELSE {}

\* C1: whenever genre resolution yields -1, the request returns a warning
\* whose text ends with the attempted genre name, and the discover endpoint
\* is never called in that request.
C1_NotFoundWarnsWithoutDiscover ==
    id = -1 =>
        /\ pc = "done"
        /\ result.shape = "warning"
        /\ Len(result.text) = 1 + Len(genre)
        /\ SubSeq(result.text, 2, Len(result.text)) = genre
        /\ \A i \in 1..Len(calls) : calls[i] # "discover"

C1_Witness ==
    /\ id = -1
    /\ TaxonomyFetched
    /\ Matching = {}
    /\ result.shape = "warning"
    /\ genre = WAR

\* C2: the result of a request whose genre is absent from a fetched
\* taxonomy (NotFound) differs from the result of a request of the same
\* route whose taxonomy or discover call failed (UpstreamUnavailable).
C2_NotFoundDistinctFromUnavailable ==
    (/\ pc = "done"
     /\ prev.kind = kind
     /\ {prev.cause, Cause} = {"NotFound", "UpstreamUnavailable"})
        => prev.result # result

\* C3: whatever upstream call fails, and however (HTTP status, undecodable
\* body, or a transport failure without response), the request returns a
\* warning or an error body and no exception escapes the handler.
C3_NoExceptionEscapes ==
    (pc = "done" /\ (IsFailure(lib_resp) \/ IsFailure(tax_resp) \/ IsFailure(disc_resp)))
        => result.shape \in {"warning", "error"}

NoGenreAnywhere(lib) ==
    \A i \in 1..Len(lib) : "genres" \notin DOMAIN lib[i] \/ lib[i]["genres"] = <<>>

\* C4: when the library is empty or no record carries any genre (records
\* without a genres key included), the request ends with the error raised
\* by get_genre and has called neither the taxonomy nor the discover
\* endpoint.
C4_EmptyInputStopsBeforeMetadata ==
    (lib_resp.kind = "json" /\ NoGenreAnywhere(lib_resp.body)) =>
        /\ pc = "done"
        /\ result.shape = "error"
        /\ result.text \in {Lit("max() arg is an empty sequence"), Lit("'genres'")}
        /\ calls = <<"library">>

C4_Witness ==
    /\ pc = "done"
    /\ lib_resp.kind = "json"
    /\ Len(lib_resp.body) = 2
    /\ "genres" \notin DOMAIN lib_resp.body[1]
    /\ "genres" \notin DOMAIN lib_resp.body[2]
    /\ result = Error(Lit("'genres'"))

\* C7: once the taxonomy call is answered, id is the id of an entry whose
\* name equals the genre ignoring case whenever the fetched taxonomy has
\* one, id is -1 exactly when no entry matches or the call failed, and no
\* exception reaches the handler.
C7_ResolveGenreId ==
    tax_resp.kind # "none" =>
        /\ Matching # {} => \E i \in Matching : id = tax_resp.body["genres"][i].id
        /\ (id = -1) <=> (Matching = {})
        /\ disc_resp.kind = "none" =>
              \/ id = -1 /\ pc = "done" /\ result.shape = "warning"
              \/ id # -1 /\ pc = "await_discover" /\ result = NoResult

C7_Witness ==
    /\ TaxonomyFetched
    /\ genre = WAR
    /\ Len(tax_resp.body["genres"]) = 2
    /\ tax_resp.body["genres"][1].name = Doc
    /\ tax_resp.body["genres"][2].name = war
    /\ id = 18

TitleOf(m) ==
    IF "original_title" \in DOMAIN m THEN m["original_title"].s ELSE m["original_name"].s

\* C8: when the genre resolved to a valid id and the discover call returned
\* n results, the request returns n Media records in the order of the
\* results, each with watched = false and length "N/A", if n >= 1, and a
\* warning if n = 0.
C8_OneMediaPerResult ==
    (/\ pc = "done"
     /\ id \notin {0, -1}
     /\ disc_resp.kind = "json"
     /\ "results" \in DOMAIN disc_resp.body) =>
        LET rs == disc_resp.body["results"]
        IN IF rs = <<>>
           THEN result.shape = "warning"
           ELSE /\ result.shape = "list"
                /\ Len(result.items) = Len(rs)
                /\ \A i \in 1..Len(rs) :
                      /\ result.items[i].name = TitleOf(rs[i])
                      /\ result.items[i].watched = FALSE
                      /\ result.items[i].length = Lit("N/A")

-----------------------------------------------------------------------------
(* The utility functions on their own: the argument is drawn from a       *)
(* bounded domain and the function is applied to it once.                 *)

Pending == [exc |-> "pending", text |-> <<>>, val |-> <<>>]

Called(f) == fn = f /\ ret # Pending

Apply(f, out) ==
    /\ fn = f
    /\ ret = Pending
    /\ ret' = out
    /\ UNCHANGED <<fn, arg, reqvars, prev>>

(* get_genre *)

InitGenre ==
    /\ ReqInit /\ prev = NoPrev
    /\ fn = "get_genre"
    /\ arg \in Libraries(GenreNames, MaxScan, MaxScan)
    /\ ret = Pending

CallGetGenre == Apply("get_genre", get_genre(arg))

SpecGenre == InitGenre /\ [][CallGetGenre]_vars

(* get_rating *)

RatingScalars == {JFloat(75), JFloat(81), JInt(7)}
RatingKeys == {"value", "imdb"}

Dicts(V) ==
    {PyDict(<<>>)}
        \cup {PyDict(<<<<k, v>>>>) : k \in RatingKeys, v \in V}
        \cup {PyDict(<<<<ks[1], v1>>, <<ks[2], v2>>>>) :
                ks \in {p \in RatingKeys \X RatingKeys : p[1] # p[2]}, v1 \in V, v2 \in V}

Lists(V) == {PyList(xs) : xs \in SeqsUpTo(V, MaxItems)}

RatingLevel1 == RatingScalars \cup Dicts(RatingScalars) \cup Lists(RatingScalars)
RatingInputs == Dicts(RatingLevel1) \cup Lists(RatingLevel1)

InitRating ==
    /\ ReqInit /\ prev = NoPrev
    /\ fn = "get_rating"
    /\ arg \in RatingInputs
    /\ ret = Pending

CallGetRating == Apply("get_rating", Returned(get_rating(arg)))

SpecRating == InitRating /\ [][CallGetRating]_vars

(* get_title, get_overview, get_year, get_poster_url *)

FieldValues == {JStr(<<"x">>), JInt(7), JNull}

MediaRecords ==
    UNION {[K -> FieldValues] : K \in SUBSET {"title", "overview", "year"}}
        \cup {[year |-> JStr(<<"1", "9", "9", "9">>), yeat |-> JStr(<<"x">>)]}

ImageDescriptors ==
    UNION {[K -> {JStr(Lit("poster")), JStr(Lit("fanart"))}] : K \in SUBSET {"coverType"}}
        \cup {[coverType |-> c, remoteUrl |-> u] :
                c \in {JStr(Lit("poster")), JStr(Lit("fanart"))},
                u \in {JStr(<<"a">>), JStr(<<"b">>)}}
        \cup {[remoteUrl |-> JStr(<<"a">>)]}

InitFields ==
    /\ ReqInit /\ prev = NoPrev
    /\ \/ fn \in {"get_title", "get_overview", "get_year"} /\ arg \in MediaRecords
       \/ fn = "get_poster_url" /\ arg \in SeqsUpTo(ImageDescriptors, MaxImages)
    /\ ret = Pending

CallGetTitle == Apply("get_title", get_title(arg))
CallGetOverview == Apply("get_overview", get_overview(arg))
CallGetYear == Apply("get_year", get_year(arg))
CallGetPosterUrl == Apply("get_poster_url", get_poster_url(arg))

NextFields == CallGetTitle \/ CallGetOverview \/ CallGetYear \/ CallGetPosterUrl

SpecFields == InitFields /\ [][NextFields]_vars

(* get_runtime *)

\* str arguments that int() accepts, with the integer they denote
RuntimeTexts ==
    {[s |-> <<"1", "2", "5">>, n |-> 125],
     [s |-> <<"0">>, n |-> 0],
     [s |-> <<"5", "9">>, n |-> 59],
     [s |-> <<" ", "6", "0", " ">>, n |-> 60],
     [s |-> <<"+", "6", "1">>, n |-> 61],
     [s |-> <<"-", "5">>, n |-> -5],
     [s |-> <<"0", "0", "7">>, n |-> 7]}

\* str arguments that int() rejects
BadTexts ==
    {<<"a", "b", "c">>, <<>>, <<" ">>, <<"-">>, <<"1", "2", "a">>, <<"9", "0", ".", "5">>,
     <<"1", " ", "2">>, <<"-", "-", "5">>}

\* float arguments in tenths, with the integer int() truncates them to
RuntimeFloats ==
    {[f |-> 905, n |-> 90], [f |-> 1200, n |-> 120], [f |-> -5, n |-> 0], [f |-> -615, n |-> -61]}

RuntimeInputs ==
    {JInt(n) : n \in (0 - MaxMinutes)..MaxMinutes}
        \cup {JStr(e.s) : e \in RuntimeTexts}
        \cup {JStr(b) : b \in BadTexts}
        \cup {JFloat(e.f) : e \in RuntimeFloats}
        \cup {JNull}

InitRuntime ==
    /\ ReqInit /\ prev = NoPrev
    /\ fn = "get_runtime"
    /\ arg \in RuntimeInputs
    /\ ret = Pending

CallGetRuntime == Apply("get_runtime", get_runtime(arg))

SpecRuntime == InitRuntime /\ [][CallGetRuntime]_vars

-----------------------------------------------------------------------------
(* Properties of the utility functions *)

\* occurrences of g among the first k genre occurrences of the scan
CountIn(g, occ, k) == Cardinality({i \in 1..k : occ[i] = g})

Total(g, occ) == CountIn(g, occ, Len(occ))

TopGenres(occ) ==
    {g \in {occ[i] : i \in 1..Len(occ)} :
        \A i \in 1..Len(occ) : Total(occ[i], occ) <= Total(g, occ)}

\* position of the scan at which g reaches its total count
ReachedAt(g, occ) == CHOOSE k \in 1..Len(occ) : occ[k] = g /\ CountIn(g, occ, k) = Total(g, occ)

\* position of the first occurrence of g
FirstAt(g, occ) == CHOOSE k \in 1..Len(occ) : occ[k] = g /\ CountIn(g, occ, k) = 1

GenreReturned == Called("get_genre") /\ ret.exc = "none"

\* C5 as stated: among the genres sharing the maximum count, get_genre
\* returns the one that reached that count first in the scan.
C5_FirstToReachMax ==
    GenreReturned =>
        LET occ == Occurrences(arg)
        IN /\ ret.val \in TopGenres(occ)
           /\ \A g \in TopGenres(occ) : ReachedAt(ret.val, occ) <= ReachedAt(g, occ)

\* C5 as amended: among the genres sharing the maximum count, get_genre
\* returns the one whose first occurrence comes first in the scan.
C5_FirstSeenAmongMax ==
    GenreReturned =>
        LET occ == Occurrences(arg)
        IN /\ ret.val \in TopGenres(occ)
           /\ \A g \in TopGenres(occ) : FirstAt(ret.val, occ) <= FirstAt(g, occ)

C5_Witness ==
    /\ GenreReturned
    /\ Occurrences(arg) = <<War, Doc, Doc, War>>
    /\ ret.val = War

\* C6: for a collection with at least one genre, no genre occurs more often
\* over all records than the one get_genre returns.
C6_ReturnsMostFrequent ==
    (Called("get_genre") /\ \A i \in 1..Len(arg) : "genres" \in DOMAIN arg[i]) =>
        LET occ == Occurrences(arg)
        IN occ # <<>> =>
            /\ ret.exc = "none"
            /\ \A g \in GenreNames : Total(g, occ) <= Total(ret.val, occ)

C6_Witness ==
    /\ GenreReturned
    /\ Occurrences(arg) = <<War, Doc, Doc>>
    /\ Len(arg) = 2
    /\ ret.val = Doc

Children(n) ==
    IF n.t = "dict" THEN Values(n) ELSE IF n.t = "list" THEN n.items ELSE <<>>

RECURSIVE NodeAt(_, _)
NodeAt(n, path) == IF path = <<>> THEN n ELSE NodeAt(Children(n)[Head(path)], Tail(path))

RECURSIVE PathsOf(_)
PathsOf(n) ==
    {<<>>} \cup UNION {{<<i>> \o q : q \in PathsOf(Children(n)[i])} : i \in 1..Len(Children(n))}

\* p comes before q in a depth-first, left-to-right visit
Before(p, q) ==
    \/ Len(p) < Len(q) /\ SubSeq(q, 1, Len(p)) = p
    \/ \E k \in 1..Len(p) :
          /\ k <= Len(q)
          /\ SubSeq(p, 1, k - 1) = SubSeq(q, 1, k - 1)
          /\ p[k] < q[k]

HoldsFloat(n) ==
    /\ n.t = "dict"
    /\ \E i \in 1..Len(n.kv) : n.kv[i][1] = "value" /\ n.kv[i][2].t = "float"

HeldValue(n) == n.kv[CHOOSE i \in 1..Len(n.kv) : n.kv[i][1] = "value"][2]

\* C9: get_rating returns the float value held by the first mapping, in
\* depth-first left-to-right order, that holds a float-typed value, and None
\* exactly when no mapping of the structure holds one.
C9_FirstFloatDepthFirst ==
    Called("get_rating") =>
        LET holders == {p \in PathsOf(arg) : HoldsFloat(NodeAt(arg, p))}
        IN /\ ret.exc = "none"
           /\ (ret.val = JNull) <=> (holders = {})
           /\ holders # {} =>
                \E p \in holders :
                    /\ \A q \in holders \ {p} : Before(p, q)
                    /\ ret.val = HeldValue(NodeAt(arg, p))

C9_Witness ==
    /\ Called("get_rating")
    /\ arg = PyList(<<PyDict(<<<<"value", JInt(7)>>>>),
                      PyDict(<<<<"imdb", JFloat(75)>>, <<"value", JFloat(81)>>>>)>>)
    /\ ret.val = JFloat(81)

\* C10: get_title, get_overview and get_year return a string for every
\* mapping record, and get_poster_url returns a URL or None for every
\* sequence of image descriptors; none of them raises.
C10_ExtractorsNeverRaise ==
    /\ (Called("get_title") \/ Called("get_overview") \/ Called("get_year")) =>
            ret.exc = "none" /\ ret.val.t = "str"
    /\ Called("get_poster_url") => ret.exc = "none" /\ ret.val.t \in {"str", "null"}

YearIsStr(media) == "year" \in DOMAIN media /\ media["year"].t = "str"

Convertible(v) ==
    \/ v.t \in {"int", "float"}
    \/ v.t = "str" /\ \E e \in RuntimeTexts : e.s = v.s

\* the integer the argument converts to, read off the input tables
IntOf(v) ==
    CASE v.t = "int" -> v.n
      [] v.t = "float" -> (CHOOSE e \in RuntimeFloats : e.f = v.n).n
      [] v.t = "str" -> (CHOOSE e \in RuntimeTexts : e.s = v.s).n

\* C12: for an argument convertible to an integer n, get_runtime returns
\* "{H}h {M}m" with 60*H + M = n and 0 <= M < 60; for any other argument it
\* returns the argument unchanged; it never raises.
C12_RuntimeFormat ==
    Called("get_runtime") =>
        /\ ret.exc = "none"
        /\ IF Convertible(arg)
           THEN \E H \in -3..3, M \in 0..59 :
                    /\ 60 * H + M = IntOf(arg)
                    /\ ret.val = JStr(int_str(H) \o <<"h", " ">> \o int_str(M) \o <<"m">>)
           ELSE ret.val = arg

C12_Witness ==
    /\ Called("get_runtime")
    /\ arg = JStr(<<"1", "2", "5">>)
    /\ ret.val = JStr(<<"2", "h", " ", "5", "m">>)

-----------------------------------------------------------------------------
(* Order of the upstream calls, and the series layout *)

CallOrder == <<"library", "taxonomy", "discover">>

CallsInOrder ==
    /\ Len(calls) <= 3
    /\ calls = SubSeq(CallOrder, 1, Len(calls))
    /\ Len(calls) >= 2 => lib_resp.kind = "json"
    /\ Len(calls) = 3 => TaxonomyFetched /\ Matching # {}
    /\ IsFailure(lib_resp) => calls = <<"library">>
    /\ IsFailure(tax_resp) => calls = <<"library", "taxonomy">>

\* C13: the upstream calls of a request are a prefix of library, taxonomy,
\* discover, each issued at most once and only after the one before it was
\* answered successfully; once an upstream call has failed, the request
\* issues no further call.
C13_SequentialCallsNoRetry ==
    /\ []CallsInOrder
    /\ [][(IsFailure(lib_resp) \/ IsFailure(tax_resp) \/ IsFailure(disc_resp)) => calls' = calls]_vars

C13_Witness ==
    /\ pc = "done"
    /\ calls = CallOrder
    /\ IsFailure(disc_resp)
    /\ result.shape = "error"

\* C14: for /recotv, every discover result in the series layout becomes a
\* Media record whose name is original_name and whose year is the first
\* four characters of first_air_date.
C14_SeriesLayoutForTv ==
    (/\ pc = "done"
     /\ kind = "tv"
     /\ disc_resp.kind = "json"
     /\ "results" \in DOMAIN disc_resp.body
     /\ disc_resp.body["results"] # <<>>) =>
        LET rs == disc_resp.body["results"]
        IN /\ result.shape = "list"
           /\ Len(result.items) = Len(rs)
           /\ \A i \in 1..Len(rs) :
                 /\ result.items[i].name = rs[i]["original_name"].s
                 /\ Len(result.items[i].year) <= 4
                 /\ result.items[i].year =
                        SubSeq(rs[i]["first_air_date"].s, 1, Len(result.items[i].year))
                 /\ Len(result.items[i].year) = 4 \/ result.items[i].year = rs[i]["first_air_date"].s

====
